---- MODULE Spec2Model ----
(***************************************************************************)
(* A model of the minesweeper board engine of src/src/main.rs: the board   *)
(* (GameBoard), its construction and mine generation, the single mutation  *)
(* entry point manipulate_cell with its four coordinate commands, and the   *)
(* flood-fill reveal.                                                       *)
(***************************************************************************)
EXTENDS Integers, Sequences, FiniteSets, TLC

VARIABLES
    game_configuration, \* GameBoard.game_configuration: width, height, total_mines
    mines_discovered,   \* GameBoard.mines_discovered (u32)
    cells,              \* GameBoard.cells: Vec<BoardCell>, indexed from 0
    pc,                 \* "new": constructed; "play": generated, between commands;
                        \* "explore_cells": inside the loop of explore_cells;
                        \* "panicked": the process aborted; "start", "done":
                        \* game_loop before the board exists and after its loop
    command,            \* the command last handed to manipulate_cell
    resolve,            \* the GameResolve that manipulate_cell returned for it
    queue,              \* the work-list of explore_cells while its loop runs
    input,              \* the text or value last handed to a parser or a helper
    output              \* what the parser or helper made of it

vars == <<game_configuration, mines_discovered, cells, pc, command, resolve, queue,
          input, output>>

-----------------------------------------------------------------------------
(* Bounds of the model.                                                     *)

\* Boards have at most MaxCells cells (width * height <= MaxCells).
MaxCells == 4

-----------------------------------------------------------------------------
(* Integer widths.                                                          *)

U8 == 256
U16 == 65536

-----------------------------------------------------------------------------
(* Data types.                                                              *)

Mark == {"NoMark", "MarkNote", "MarkFlag"}

\* enum BoardCell { Explored(NeighbourMines), NoMine(CellInfo), Mine(Mark) }
Explored(n) == [kind |-> "Explored", n |-> n]
NoMine(mark, n) == [kind |-> "NoMine", mark |-> mark, n |-> n]
Mine(mark) == [kind |-> "Mine", mark |-> mark]

\* struct Coordinate(u16, u16): <<row, column>>
Coordinate(row, col) == <<row, col>>

\* enum BoardCommand
Pass == [op |-> "Pass"]
Quit == [op |-> "Quit"]
ClearMark(c) == [op |-> "ClearMark", coordinate |-> c]
SetMarkFlag(c) == [op |-> "SetMarkFlag", coordinate |-> c]
SetMarkNote(c) == [op |-> "SetMarkNote", coordinate |-> c]
Explore(c) == [op |-> "Explore", coordinate |-> c]

\* No command has been applied yet.
NoCommand == [op |-> "None"]

\* enum GameResolve
GameResolve == {"Quit", "Continue", "MineHit", "AllMinesDiscovered"}

\* GameConfiguration::new
GameConfiguration(width, height, total_mines) ==
    [width |-> width, height |-> height, total_mines |-> total_mines]

w(cfg) == cfg.width
h(cfg) == cfg.height
mines(cfg) == cfg.total_mines

\* The configurations of the model: non-empty boards of at most MaxCells
\* cells with 0 <= total_mines <= width * height.
Configurations ==
    { GameConfiguration(wd, ht, m) :
        <<wd, ht, m>> \in { t \in (1..MaxCells) \X (1..MaxCells) \X (0..MaxCells) :
                              t[1] * t[2] <= MaxCells /\ t[3] <= t[1] * t[2] } }

\* The in-range coordinates of a board.
Coordinates(cfg) == (0..(h(cfg) - 1)) \X (0..(w(cfg) - 1))

-----------------------------------------------------------------------------
(* Helpers of GameBoard.                                                    *)

\* compute_linear_index: row * width + col in u16 arithmetic
compute_linear_index(cfg, coordinate) ==
    (((coordinate[1] * w(cfg)) % U16) + coordinate[2]) % U16

\* add_neighbours: the coordinates pushed, in the order of the two loops
Offsets == <<  <<-1, -1>>, <<-1, 0>>, <<-1, 1>>,
               << 0, -1>>, << 0, 0>>, << 0, 1>>,
               << 1, -1>>, << 1, 0>>, << 1, 1>> >>

RECURSIVE neighbours_from(_, _, _)
neighbours_from(cfg, center, k) ==
    IF k > Len(Offsets) THEN <<>>
    ELSE LET x == center[1] + Offsets[k][1]
             y == center[2] + Offsets[k][2]
         IN  IF \/ (x = center[1] /\ y = center[2])
                \/ x < 0
                \/ y < 0
                \/ x >= h(cfg)
                \/ y >= w(cfg)
             THEN neighbours_from(cfg, center, k + 1)
             ELSE <<Coordinate(x, y)>> \o neighbours_from(cfg, center, k + 1)

add_neighbours(cfg, q, center) == q \o neighbours_from(cfg, center, 1)

-----------------------------------------------------------------------------
(* Construction and generation.                                             *)

\* GameBoard::new
new_cells(cfg) == [i \in 0..(w(cfg) * h(cfg) - 1) |-> NoMine("NoMark", 0)]

Init ==
    /\ game_configuration \in Configurations
    /\ mines_discovered = 0
    /\ cells = new_cells(game_configuration)
    /\ pc = "new"
    /\ command = NoCommand
    /\ resolve = "Continue"
    /\ queue = <<>>
    /\ input = <<>>
    /\ output = <<>>

\* mine_positions.shuffle(..) followed by [0..total_mines]: the prefixes the
\* shuffle can produce are the sequences of k distinct linear positions.
RECURSIVE shuffled_prefixes(_, _)
shuffled_prefixes(positions, k) ==
    IF k = 0 THEN { <<>> }
    ELSE UNION { { <<p>> \o rest : rest \in shuffled_prefixes(positions \ {p}, k - 1) } :
                 p \in positions }

\* first loop of generate_world: every chosen position becomes Mine(NoMark)
RECURSIVE place_mines(_, _, _)
place_mines(cs, mine_positions, k) ==
    IF k > Len(mine_positions) THEN cs
    ELSE place_mines([cs EXCEPT ![mine_positions[k]] = Mine("NoMark")],
                     mine_positions, k + 1)

\* inner loop of the second loop: one increment per NoMine neighbour
RECURSIVE bump_neighbours(_, _, _, _)
bump_neighbours(cfg, cs, neighbours, k) ==
    IF k > Len(neighbours) THEN cs
    ELSE LET lin_index == compute_linear_index(cfg, neighbours[k])
             cell == cs[lin_index]
             updated == IF cell.kind = "NoMine"
                        THEN NoMine("NoMark", (cell.n + 1) % U8)
                        ELSE cell
         IN  bump_neighbours(cfg, [cs EXCEPT ![lin_index] = updated], neighbours, k + 1)

\* count_mines with the row and column of a mine computed from the height
\* instead of the width
RECURSIVE count_mines_by_height(_, _, _, _)
count_mines_by_height(cfg, cs, mine_positions, k) ==
    IF k > Len(mine_positions) THEN cs
    ELSE LET mine_lin_index == mine_positions[k]
             center == Coordinate((mine_lin_index \div h(cfg)) % U16,
                                  (mine_lin_index % h(cfg)) % U16)
             neighbours == add_neighbours(cfg, <<>>, center)
         IN  count_mines_by_height(cfg, bump_neighbours(cfg, cs, neighbours, 1),
                                   mine_positions, k + 1)

\* second loop of generate_world: for every mine, in order, bump its neighbours
RECURSIVE count_mines(_, _, _, _)
count_mines(cfg, cs, mine_positions, k) ==
    IF k > Len(mine_positions) THEN cs
    ELSE LET mine_lin_index == mine_positions[k]
             center == Coordinate((mine_lin_index \div w(cfg)) % U16,
                                  (mine_lin_index % w(cfg)) % U16)
             neighbours == add_neighbours(cfg, <<>>, center)
         IN  count_mines(cfg, bump_neighbours(cfg, cs, neighbours, 1),
                         mine_positions, k + 1)

\* GameBoard::generate_world, for one outcome of the shuffle
generate_world(cfg, cs, mine_positions) ==
    count_mines(cfg, place_mines(cs, mine_positions, 1), mine_positions, 1)

GenerateWorld ==
    /\ pc = "new"
    /\ \E mine_positions \in shuffled_prefixes(0..(w(game_configuration) * h(game_configuration) - 1),
                                               mines(game_configuration)) :
          cells' = generate_world(game_configuration, cells, mine_positions)
    /\ pc' = "play"
    /\ UNCHANGED <<game_configuration, mines_discovered, command, resolve, queue, input, output>>

-----------------------------------------------------------------------------
(* Commands.                                                                *)

\* mines_discovered -= 1 on a u32.  At 0 the subtraction underflows: a debug
\* build panics and a release build wraps to 2^32 - 1, a value beyond the
\* integers of the model checker; Underflowed stands for both outcomes.
Underflowed == -1
u32_sub1(n) == IF n = 0 THEN Underflowed ELSE n - 1

\* mines_discovered += 1 on a u32; the counter of a board of at most U16 * U16
\* cells stays far below 2^32 - 1 at the sizes of the model.
u32_add1(n) == n + 1

\* clear_mark that also decrements the counter for a flag on a NoMine cell
clear_mark_counts_any_flag(cfg, cs, md, coordinate) ==
    LET linear_index == compute_linear_index(cfg, coordinate)
        cell == cs[linear_index]
    IN  CASE cell.kind = "NoMine" ->
               <<[cs EXCEPT ![linear_index] = NoMine("NoMark", cell.n)],
                 IF cell.mark = "MarkFlag" THEN u32_sub1(md) ELSE md,
                 "Continue">>
          [] cell.kind = "Mine" ->
               <<[cs EXCEPT ![linear_index] = Mine("NoMark")],
                 IF cell.mark = "MarkFlag" THEN u32_sub1(md) ELSE md,
                 "Continue">>
          [] OTHER -> <<cs, md, "Continue">>

\* clear_mark that decrements the counter for a mine whatever its mark
clear_mark_always_decrements(cfg, cs, md, coordinate) ==
    LET linear_index == compute_linear_index(cfg, coordinate)
        cell == cs[linear_index]
    IN  CASE cell.kind = "NoMine" ->
               <<[cs EXCEPT ![linear_index] = NoMine("NoMark", cell.n)], md, "Continue">>
          [] cell.kind = "Mine" ->
               <<[cs EXCEPT ![linear_index] = Mine("NoMark")], u32_sub1(md), "Continue">>
          [] OTHER -> <<cs, md, "Continue">>

\* GameBoard::clear_mark: <<cells, mines_discovered, result>>
clear_mark(cfg, cs, md, coordinate) ==
    LET linear_index == compute_linear_index(cfg, coordinate)
        cell == cs[linear_index]
    IN  CASE cell.kind = "NoMine" ->
               <<[cs EXCEPT ![linear_index] = NoMine("NoMark", cell.n)], md, "Continue">>
          [] cell.kind = "Mine" ->
               <<[cs EXCEPT ![linear_index] = Mine("NoMark")],
                 IF cell.mark = "MarkFlag" THEN u32_sub1(md) ELSE md,
                 "Continue">>
          [] OTHER -> <<cs, md, "Continue">>

\* set_mark_flag that increments the counter whatever the mine's prior mark
set_mark_flag_always_counts(cfg, cs, md, coordinate) ==
    LET linear_index == compute_linear_index(cfg, coordinate)
        cell == cs[linear_index]
    IN  CASE cell.kind = "NoMine" ->
               <<[cs EXCEPT ![linear_index] = NoMine("MarkFlag", cell.n)], md, "Continue">>
          [] cell.kind = "Mine" ->
               <<[cs EXCEPT ![linear_index] = Mine("MarkFlag")], u32_add1(md), "Continue">>
          [] OTHER -> <<cs, md, "Continue">>

\* set_mark_flag that treats an Explored cell like a concealed one
set_mark_flag_marks_explored(cfg, cs, md, coordinate) ==
    LET linear_index == compute_linear_index(cfg, coordinate)
        cell == cs[linear_index]
    IN  CASE cell.kind \in {"NoMine", "Explored"} ->
               <<[cs EXCEPT ![linear_index] = NoMine("MarkFlag", cell.n)], md, "Continue">>
          [] cell.kind = "Mine" ->
               <<[cs EXCEPT ![linear_index] = Mine("MarkFlag")],
                 IF cell.mark \in {"NoMark", "MarkNote"} THEN u32_add1(md) ELSE md,
                 "Continue">>
          [] OTHER -> <<cs, md, "Continue">>

\* GameBoard::set_mark_flag
set_mark_flag(cfg, cs, md, coordinate) ==
    LET linear_index == compute_linear_index(cfg, coordinate)
        cell == cs[linear_index]
    IN  CASE cell.kind = "NoMine" ->
               <<[cs EXCEPT ![linear_index] = NoMine("MarkFlag", cell.n)], md, "Continue">>
          [] cell.kind = "Mine" ->
               <<[cs EXCEPT ![linear_index] = Mine("MarkFlag")],
                 IF cell.mark \in {"NoMark", "MarkNote"} THEN u32_add1(md) ELSE md,
                 "Continue">>
          [] OTHER -> <<cs, md, "Continue">>

\* set_mark_note that forgets to decrement the counter of a flagged mine
set_mark_note_keeps_counter(cfg, cs, md, coordinate) ==
    LET linear_index == compute_linear_index(cfg, coordinate)
        cell == cs[linear_index]
    IN  CASE cell.kind = "NoMine" ->
               <<[cs EXCEPT ![linear_index] = NoMine("MarkNote", cell.n)], md, "Continue">>
          [] cell.kind = "Mine" ->
               <<[cs EXCEPT ![linear_index] = Mine("MarkNote")], md, "Continue">>
          [] OTHER -> <<cs, md, "Continue">>

\* set_mark_note that rebuilds the NoMine cell with a neighbour count of 0
set_mark_note_resets_count(cfg, cs, md, coordinate) ==
    LET linear_index == compute_linear_index(cfg, coordinate)
        cell == cs[linear_index]
    IN  CASE cell.kind = "NoMine" ->
               <<[cs EXCEPT ![linear_index] = NoMine("MarkNote", 0)], md, "Continue">>
          [] cell.kind = "Mine" ->
               <<[cs EXCEPT ![linear_index] = Mine("MarkNote")],
                 IF cell.mark = "MarkFlag" THEN u32_sub1(md) ELSE md,
                 "Continue">>
          [] OTHER -> <<cs, md, "Continue">>

\* GameBoard::set_mark_note
set_mark_note(cfg, cs, md, coordinate) ==
    LET linear_index == compute_linear_index(cfg, coordinate)
        cell == cs[linear_index]
    IN  CASE cell.kind = "NoMine" ->
               <<[cs EXCEPT ![linear_index] = NoMine("MarkNote", cell.n)], md, "Continue">>
          [] cell.kind = "Mine" ->
               <<[cs EXCEPT ![linear_index] = Mine("MarkNote")],
                 IF cell.mark = "MarkFlag" THEN u32_sub1(md) ELSE md,
                 "Continue">>
          [] OTHER -> <<cs, md, "Continue">>

\* explore_step that cascades only through cells without adjacent mines
explore_step_zero_only(cfg, cs, q) ==
    LET cell_coordinate == q[Len(q)]
        popped == SubSeq(q, 1, Len(q) - 1)
        linear_index == compute_linear_index(cfg, cell_coordinate)
        cell == cs[linear_index]
    IN  CASE cell.kind = "Explored" -> <<cs, popped>>
          [] cell.kind = "NoMine" ->
               <<[cs EXCEPT ![linear_index] = Explored(cell.n)],
                 IF cell.n = 0 THEN add_neighbours(cfg, popped, cell_coordinate)
                 ELSE popped>>
          [] OTHER -> <<cs, popped>>

\* explore_step that looks at the last element and leaves an Explored one on
\* the work-list
explore_step_keeps_explored(cfg, cs, q) ==
    LET cell_coordinate == q[Len(q)]
        popped == SubSeq(q, 1, Len(q) - 1)
        linear_index == compute_linear_index(cfg, cell_coordinate)
        cell == cs[linear_index]
    IN  CASE cell.kind = "Explored" -> <<cs, q>>
          [] cell.kind = "NoMine" ->
               <<[cs EXCEPT ![linear_index] = Explored(cell.n)],
                 add_neighbours(cfg, popped, cell_coordinate)>>
          [] OTHER -> <<cs, popped>>

\* explore_step that leaves the loop at the first mine it pops (break)
explore_step_breaks_on_mine(cfg, cs, q) ==
    LET cell_coordinate == q[Len(q)]
        popped == SubSeq(q, 1, Len(q) - 1)
        linear_index == compute_linear_index(cfg, cell_coordinate)
        cell == cs[linear_index]
    IN  CASE cell.kind = "Explored" -> <<cs, popped>>
          [] cell.kind = "NoMine" ->
               <<[cs EXCEPT ![linear_index] = Explored(cell.n)],
                 add_neighbours(cfg, popped, cell_coordinate)>>
          [] OTHER -> <<cs, <<>>>>

\* One iteration of the loop of explore_cells on a non-empty work-list:
\* pop the last element, skip an Explored cell, expand and reveal a NoMine
\* cell, leave a Mine cell alone.  Result: <<cells, queue>>
explore_step(cfg, cs, q) ==
    LET cell_coordinate == q[Len(q)]
        popped == SubSeq(q, 1, Len(q) - 1)
        linear_index == compute_linear_index(cfg, cell_coordinate)
        cell == cs[linear_index]
    IN  CASE cell.kind = "Explored" -> <<cs, popped>>
          [] cell.kind = "NoMine" ->
               <<[cs EXCEPT ![linear_index] = Explored(cell.n)],
                 add_neighbours(cfg, popped, cell_coordinate)>>
          [] OTHER -> <<cs, popped>>

\* the while loop of explore_cells, run until the work-list is empty
RECURSIVE explore_loop(_, _, _)
explore_loop(cfg, cs, q) ==
    IF q = <<>> THEN cs
    ELSE LET next == explore_step(cfg, cs, q)
         IN  explore_loop(cfg, next[1], next[2])

\* GameBoard::explore_cells
explore_cells(cfg, cs, coordinate) == explore_loop(cfg, cs, <<coordinate>>)

\* explore that reveals the mine it hits
explore_reveals_mine(cfg, cs, md, coordinate) ==
    LET linear_index == compute_linear_index(cfg, coordinate)
        cell == cs[linear_index]
    IN  CASE cell.kind = "NoMine" -> <<explore_cells(cfg, cs, coordinate), md, "Continue">>
          [] cell.kind = "Mine" -> <<[cs EXCEPT ![linear_index] = Explored(0)], md, "MineHit">>
          [] OTHER -> <<cs, md, "Continue">>

\* explore whose catch-all arm, the one an Explored cell takes, returns MineHit
explore_hits_on_explored(cfg, cs, md, coordinate) ==
    LET linear_index == compute_linear_index(cfg, coordinate)
        cell == cs[linear_index]
    IN  CASE cell.kind = "NoMine" -> <<explore_cells(cfg, cs, coordinate), md, "Continue">>
          [] OTHER -> <<cs, md, "MineHit">>

\* GameBoard::explore
explore(cfg, cs, md, coordinate) ==
    LET linear_index == compute_linear_index(cfg, coordinate)
        cell == cs[linear_index]
    IN  CASE cell.kind = "NoMine" -> <<explore_cells(cfg, cs, coordinate), md, "Continue">>
          [] cell.kind = "Mine" -> <<cs, md, "MineHit">>
          [] OTHER -> <<cs, md, "Continue">>

\* the first match of manipulate_cell: dispatch on the command
dispatch(cfg, cs, md, cmd) ==
    CASE cmd.op = "Quit" -> <<cs, md, "Quit">>
      [] cmd.op = "Pass" -> <<cs, md, "Continue">>
      [] cmd.op = "ClearMark" -> clear_mark(cfg, cs, md, cmd.coordinate)
      [] cmd.op = "SetMarkFlag" -> set_mark_flag(cfg, cs, md, cmd.coordinate)
      [] cmd.op = "SetMarkNote" -> set_mark_note(cfg, cs, md, cmd.coordinate)
      [] cmd.op = "Explore" -> explore(cfg, cs, md, cmd.coordinate)

\* win check that never reports a win on a board without mines
win_check_needs_mines(cfg, md, command_result) ==
    IF command_result \in {"Continue", "AllMinesDiscovered"}
    THEN IF md = mines(cfg) /\ mines(cfg) > 0 THEN "AllMinesDiscovered" ELSE "Continue"
    ELSE command_result

\* win check applied to every result of the dispatch
win_check_upgrades_all(cfg, md, command_result) ==
    IF md = mines(cfg) THEN "AllMinesDiscovered" ELSE command_result

\* the second match of manipulate_cell: the win check on the new counter
win_check(cfg, md, command_result) ==
    IF command_result \in {"Continue", "AllMinesDiscovered"}
    THEN IF md = mines(cfg) THEN "AllMinesDiscovered" ELSE "Continue"
    ELSE command_result

\* GameBoard::manipulate_cell: <<cells, mines_discovered, resolve>>
manipulate_cell(cfg, cs, md, cmd) ==
    LET r == dispatch(cfg, cs, md, cmd)
    IN  <<r[1], r[2], win_check(cfg, r[2], r[3])>>

\* The commands with in-range coordinates.
Commands(cfg) ==
    {Pass, Quit}
    \cup { ClearMark(c) : c \in Coordinates(cfg) }
    \cup { SetMarkFlag(c) : c \in Coordinates(cfg) }
    \cup { SetMarkNote(c) : c \in Coordinates(cfg) }
    \cup { Explore(c) : c \in Coordinates(cfg) }

\* manipulate_cell applied to the generated board
Apply(cmd) ==
    /\ pc = "play"
    /\ LET r == manipulate_cell(game_configuration, cells, mines_discovered, cmd)
       IN  /\ cells' = r[1]
           /\ mines_discovered' = r[2]
           /\ resolve' = r[3]
    /\ command' = cmd
    /\ UNCHANGED <<game_configuration, pc, queue, input, output>>

DoPass == Apply(Pass)
DoQuit == Apply(Quit)
DoClearMark == \E c \in Coordinates(game_configuration) : Apply(ClearMark(c))
DoSetMarkFlag == \E c \in Coordinates(game_configuration) : Apply(SetMarkFlag(c))
DoSetMarkNote == \E c \in Coordinates(game_configuration) : Apply(SetMarkNote(c))
DoExplore == \E c \in Coordinates(game_configuration) : Apply(Explore(c))

Next ==
    \/ GenerateWorld
    \/ DoPass
    \/ DoQuit
    \/ DoClearMark
    \/ DoSetMarkFlag
    \/ DoSetMarkNote
    \/ DoExplore

Spec == Init /\ [][Next]_vars

-----------------------------------------------------------------------------
(* The flood-fill of explore_cells, one loop iteration per step: Explore on  *)
(* a NoMine cell is split into the entry of explore_cells, the iterations of *)
(* its while loop and the return through explore and the win check of        *)
(* manipulate_cell.  The boards it starts from carry flags and notes; Pass,  *)
(* Quit and ClearMark, which the loop never meets, are left to Spec.         *)

\* Explore(c) on a NoMine cell: explore calls explore_cells, whose queue
\* starts as vec![coordinate]
BeginExplore ==
    /\ pc = "play"
    /\ \E c \in Coordinates(game_configuration) :
          /\ cells[compute_linear_index(game_configuration, c)].kind = "NoMine"
          /\ command' = Explore(c)
          /\ queue' = <<c>>
    /\ pc' = "explore_cells"
    /\ UNCHANGED <<game_configuration, mines_discovered, cells, resolve, input, output>>

\* while let Some(cell_coordinate) = queue.pop() { .. }
ExploreStep ==
    /\ pc = "explore_cells"
    /\ queue # <<>>
    /\ LET next == explore_step(game_configuration, cells, queue)
       IN  /\ cells' = next[1]
           /\ queue' = next[2]
    /\ UNCHANGED <<game_configuration, mines_discovered, pc, command, resolve, input, output>>

\* queue.pop() returns None: explore returns Continue to manipulate_cell
EndExplore ==
    /\ pc = "explore_cells"
    /\ queue = <<>>
    /\ resolve' = win_check(game_configuration, mines_discovered, "Continue")
    /\ pc' = "play"
    /\ UNCHANGED <<game_configuration, mines_discovered, cells, command, queue, input, output>>

\* Explore(c) on a Mine or an Explored cell
DoExploreNoFill ==
    \E c \in Coordinates(game_configuration) :
        /\ cells[compute_linear_index(game_configuration, c)].kind # "NoMine"
        /\ Apply(Explore(c))

NextFill ==
    \/ GenerateWorld
    \/ DoSetMarkFlag
    \/ DoSetMarkNote
    \/ DoExploreNoFill
    \/ BeginExplore
    \/ ExploreStep
    \/ EndExplore

SpecFill == Init /\ [][NextFill]_vars

\* The loop of explore_cells runs to completion: nothing suspends it.
FairSpecFill == SpecFill /\ WF_vars(ExploreStep) /\ WF_vars(EndExplore)

-----------------------------------------------------------------------------
(* Reference notions the properties are stated with.                        *)

Total == mines(game_configuration)
Indices == DOMAIN cells
RowOf(i) == i \div w(game_configuration)
ColOf(i) == i % w(game_configuration)
IndexOf(c) == c[1] * w(game_configuration) + c[2]

Abs(x) == IF x < 0 THEN -x ELSE x

\* Two distinct cells of the grid that touch by a side or a corner.
Adjacent(i, j) ==
    /\ i # j
    /\ Abs(RowOf(i) - RowOf(j)) <= 1
    /\ Abs(ColOf(i) - ColOf(j)) <= 1

IsMine(cs, i) == cs[i].kind = "Mine"
IsNoMine(cs, i) == cs[i].kind = "NoMine"
IsExplored(cs, i) == cs[i].kind = "Explored"

FlaggedMines(cs) == { i \in DOMAIN cs : cs[i] = Mine("MarkFlag") }

\* The concealed-safe cells connected to the cells of S through adjacent
\* concealed-safe cells.
RECURSIVE Connected(_, _)
Connected(cs, S) ==
    LET T == S \cup { j \in DOMAIN cs :
                        IsNoMine(cs, j) /\ \E i \in S : Adjacent(i, j) }
    IN  IF T = S THEN S ELSE Connected(cs, T)

Region(cs, c) == Connected(cs, {IndexOf(c)})

\* A step of the engine that applies a command (in Spec every step taken
\* from pc = "play" is one call of manipulate_cell on command').
Applies == pc = "play" /\ pc' = "play"
HasCoordinate(cmd) == cmd.op \in {"ClearMark", "SetMarkFlag", "SetMarkNote", "Explore"}
ExploresMine(cmd, cs) == cmd.op = "Explore" /\ IsMine(cs, IndexOf(cmd.coordinate))
ContinueEligible(cmd, cs) == cmd.op # "Quit" /\ ~ExploresMine(cmd, cs)

-----------------------------------------------------------------------------
(* Properties.                                                              *)

\* C1: in every state reached from a generated board by commands, the
\* flagged-mine counter equals the number of Mine cells marked MarkFlag;
\* flags on NoMine cells do not count.
C1_FlagCounter ==
    pc = "play" => mines_discovered = Cardinality(FlaggedMines(cells))

\* A flagged mine next to a flagged safe cell, and an un-flagged mine.
C1_Witness ==
    /\ pc = "play"
    /\ mines_discovered = 1
    /\ Total = 2
    /\ \E i \in Indices : cells[i].kind = "NoMine" /\ cells[i].mark = "MarkFlag"
    /\ \E i \in Indices : cells[i] = Mine("MarkNote")
    /\ command.op = "SetMarkNote"

\* C2: every command other than Quit and Explore on a mine resolves to
\* AllMinesDiscovered exactly when the counter after the dispatch equals
\* total_mines, and to Continue otherwise (boards without mines included).
C2_WinCheck ==
    [][ (Applies /\ ContinueEligible(command', cells))
          => resolve' = IF mines_discovered' = Total
                        THEN "AllMinesDiscovered" ELSE "Continue" ]_vars

\* A mark command on a board without mines resolves to AllMinesDiscovered.
C2_Witness ==
    /\ pc = "play"
    /\ Total = 0
    /\ command.op = "SetMarkFlag"
    /\ resolve = "AllMinesDiscovered"

\* The command removes the flag of a flagged mine.
Unflags(cmd, cs) ==
    /\ cmd.op \in {"ClearMark", "SetMarkNote"}
    /\ cs[IndexOf(cmd.coordinate)] = Mine("MarkFlag")

\* C3 as stated: once the counter equals total_mines the next Continue-eligible
\* command resolves to AllMinesDiscovered, and a Continue-eligible command that
\* leaves the counter short of total_mines resolves to Continue.
C3_NextResolvesWin ==
    [][ (Applies /\ ContinueEligible(command', cells))
          => /\ (mines_discovered = Total => resolve' = "AllMinesDiscovered")
             /\ (mines_discovered' # Total => resolve' = "Continue") ]_vars

\* C3 amended: once the counter equals total_mines the next Continue-eligible
\* command resolves to AllMinesDiscovered unless it is ClearMark or SetMarkNote
\* on a flagged mine; a Continue-eligible command that leaves the counter short
\* of total_mines resolves to Continue.
C3_NextResolvesWinUnlessUnflag ==
    [][ (Applies /\ ContinueEligible(command', cells))
          => /\ ((mines_discovered = Total /\ ~Unflags(command', cells))
                    => resolve' = "AllMinesDiscovered")
             /\ (mines_discovered' # Total => resolve' = "Continue") ]_vars

\* All mines are flagged and a further command (a flag on a safe cell) has
\* been applied and resolved to AllMinesDiscovered.
C3_Witness ==
    /\ pc = "play"
    /\ Total = 2
    /\ mines_discovered = Total
    /\ command.op = "SetMarkFlag"
    /\ IsNoMine(cells, IndexOf(command.coordinate))
    /\ resolve = "AllMinesDiscovered"

\* C4: Quit resolves to Quit and Explore on a mine resolves to MineHit,
\* whatever the counter; neither is upgraded to AllMinesDiscovered.
C4_QuitAndMineHitBypass ==
    [][ Applies
          => /\ (command'.op = "Quit" => resolve' = "Quit")
             /\ (ExploresMine(command', cells) => resolve' = "MineHit") ]_vars

\* The last mine, flagged, was explored while the counter equalled the total.
C4_Witness ==
    /\ pc = "play"
    /\ Total > 0
    /\ mines_discovered = Total
    /\ command.op = "Explore"
    /\ cells[IndexOf(command.coordinate)] = Mine("MarkFlag")
    /\ resolve = "MineHit"

\* C5: Explore on a mine, whatever its mark, returns MineHit and leaves every
\* cell and the counter unchanged.
C5_MineHitFrame ==
    [][ (Applies /\ ExploresMine(command', cells))
          => /\ resolve' = "MineHit"
             /\ cells' = cells
             /\ mines_discovered' = mines_discovered ]_vars

\* A mine carrying a note was explored.
C5_Witness ==
    /\ pc = "play"
    /\ command.op = "Explore"
    /\ cells[IndexOf(command.coordinate)] = Mine("MarkNote")
    /\ resolve = "MineHit"

\* C6: Explore on a concealed-safe cell c changes exactly the concealed-safe
\* cells connected to c through adjacent concealed-safe cells: each becomes
\* Explored with its own neighbour count, whatever the count and the mark;
\* every other cell is unchanged.
C6_FloodFillRegion ==
    [][ (Applies /\ command'.op = "Explore"
                 /\ IsNoMine(cells, IndexOf(command'.coordinate)))
          => cells' = [i \in Indices |->
                         IF i \in Region(cells, command'.coordinate)
                         THEN Explored(cells[i].n)
                         ELSE cells[i]] ]_vars

\* An Explore revealed a cell with a non-zero count and, through it, another
\* cell, while a concealed-safe cell beyond a mine stayed concealed.
C6_Witness ==
    /\ pc = "play"
    /\ command.op = "Explore"
    /\ cells[IndexOf(command.coordinate)].kind = "Explored"
    /\ cells[IndexOf(command.coordinate)].n > 0
    /\ \E i \in Indices : i # IndexOf(command.coordinate) /\ IsExplored(cells, i)
    /\ \E i \in Indices : IsNoMine(cells, i)

\* C8: after generation an Explored cell stays Explored with the same count and
\* a command aimed at it changes nothing on the board; a Mine cell stays a
\* Mine; a NoMine cell never becomes a Mine.
C8_CellKindsStable ==
    [][ Applies
          => /\ \A i \in Indices :
                   /\ (IsExplored(cells, i) => cells'[i] = cells[i])
                   /\ (IsMine(cells, i) => IsMine(cells', i))
                   /\ (IsNoMine(cells, i) => ~IsMine(cells', i))
             /\ DOMAIN cells' = DOMAIN cells
             /\ ((HasCoordinate(command') /\ IsExplored(cells, IndexOf(command'.coordinate)))
                    => cells' = cells /\ mines_discovered' = mines_discovered) ]_vars

\* A mark command was aimed at an Explored cell next to a mine.
C8_Witness ==
    /\ pc = "play"
    /\ command.op = "SetMarkNote"
    /\ IsExplored(cells, IndexOf(command.coordinate))
    /\ \E i \in Indices : IsMine(cells, i)

\* C9: after new and generate_world exactly total_mines cells are Mine(NoMark),
\* every other cell is NoMine with NoMark and the number of mines among its
\* adjacent cells, and the counter is 0.
C9_Generated ==
    (pc = "play" /\ command = NoCommand)
      => /\ Cardinality({ i \in Indices : IsMine(cells, i) }) = Total
         /\ \A i \in Indices :
               \/ cells[i] = Mine("NoMark")
               \/ cells[i] = NoMine("NoMark",
                       Cardinality({ j \in Indices : Adjacent(i, j) /\ IsMine(cells, j) }))
         /\ mines_discovered = 0

\* A generated two-row board with a safe cell that touches three mines.
C9_Witness ==
    /\ pc = "play"
    /\ command = NoCommand
    /\ h(game_configuration) = 2
    /\ \E i \in Indices : cells[i] = NoMine("NoMark", 3)

\* The mark commands.
MarkCommands(cfg) ==
    { ClearMark(c) : c \in Coordinates(cfg) }
    \cup { SetMarkFlag(c) : c \in Coordinates(cfg) }
    \cup { SetMarkNote(c) : c \in Coordinates(cfg) }

\* C10: a mark command applied twice in a row leaves the cells and the
\* counter that one application leaves.
C10_MarkIdempotent ==
    pc = "play" =>
      \A cmd \in MarkCommands(game_configuration) :
         LET once == manipulate_cell(game_configuration, cells, mines_discovered, cmd)
             twice == manipulate_cell(game_configuration, once[1], once[2], cmd)
         IN  twice[1] = once[1] /\ twice[2] = once[2]

\* SetMarkFlag was applied to a mine that was flagged before, on a board with
\* more than one mine: the counter counts the mine once.
C10_Witness ==
    /\ pc = "play"
    /\ command.op = "SetMarkFlag"
    /\ cells[IndexOf(command.coordinate)] = Mine("MarkFlag")
    /\ mines_discovered = 1
    /\ Total > 1
    /\ FlaggedMines(cells) = {IndexOf(command.coordinate)}

\* C7: the flood-fill started by Explore on a concealed-safe cell terminates:
\* the work-list becomes empty and the call returns; a loop iteration pushes
\* neighbours only when it turns the cell it popped from NoMine to Explored,
\* so each cell pushes its neighbours at most once.
C7_FloodFillTerminates ==
    /\ [][ (pc = "explore_cells" /\ queue # <<>>
              /\ queue' # SubSeq(queue, 1, Len(queue) - 1))
             => /\ IsNoMine(cells, IndexOf(queue[Len(queue)]))
                /\ IsExplored(cells', IndexOf(queue[Len(queue)])) ]_vars
    /\ (pc = "explore_cells") ~> (pc = "play" /\ queue = <<>>)

\* The flood-fill returned after opening a whole two-by-two board without mines.
C7_Witness ==
    /\ pc = "play"
    /\ command.op = "Explore"
    /\ queue = <<>>
    /\ Total = 0
    /\ w(game_configuration) = 2 /\ h(game_configuration) = 2
    /\ \A i \in Indices : IsExplored(cells, i)


\* C11: Explore on a cell that is not a mine, applied twice in a row, leaves
\* the cells, the counter and the resolution that one application leaves; the
\* second Explore, on the now Explored cell, changes nothing.
C11_ExploreIdempotent ==
    pc = "play" =>
      \A c \in Coordinates(game_configuration) :
         ~IsMine(cells, IndexOf(c)) =>
            LET once == manipulate_cell(game_configuration, cells, mines_discovered,
                                        Explore(c))
                twice == manipulate_cell(game_configuration, once[1], once[2], Explore(c))
            IN  /\ IsExplored(once[1], IndexOf(c))
                /\ twice = once

\* An Explore was applied to a cell that is not a mine, now Explored, on a
\* board with a mine and a flagged concealed-safe cell.
C11_Witness ==
    /\ pc = "play"
    /\ command.op = "Explore"
    /\ IsExplored(cells, IndexOf(command.coordinate))
    /\ resolve = "Continue"
    /\ \E i \in Indices : IsMine(cells, i)
    /\ \E i \in Indices : IsNoMine(cells, i) /\ cells[i].mark = "MarkFlag"


-----------------------------------------------------------------------------
(* Commands at coordinates the caller did not check.  The handlers index     *)
(* self.cells with compute_linear_index(coordinate) and nothing else looks   *)
(* at the coordinate: the Vec index panics when the linear index is not      *)
(* below cells.len(), and reads the cell at that index otherwise.            *)

\* Coordinates up to one row and one column beyond the board.
AnyCoordinates(cfg) == (0..h(cfg)) \X (0..w(cfg))

\* &self.cells[linear_index]: the bounds check of the Vec
index_panics(cs, linear_index) == linear_index \notin DOMAIN cs

\* manipulate_cell on a command whose coordinate may be out of range
ApplyUnchecked(cmd) ==
    /\ pc = "play"
    /\ command' = cmd
    /\ IF /\ cmd.op \in {"ClearMark", "SetMarkFlag", "SetMarkNote", "Explore"}
          /\ index_panics(cells, compute_linear_index(game_configuration, cmd.coordinate))
       THEN /\ pc' = "panicked"
            /\ UNCHANGED <<cells, mines_discovered, resolve>>
       ELSE /\ LET r == manipulate_cell(game_configuration, cells, mines_discovered, cmd)
               IN  /\ cells' = r[1]
                   /\ mines_discovered' = r[2]
                   /\ resolve' = r[3]
            /\ pc' = pc
    /\ UNCHANGED <<game_configuration, queue, input, output>>

ClearMarkAnywhere == \E c \in AnyCoordinates(game_configuration) : ApplyUnchecked(ClearMark(c))
SetMarkFlagAnywhere == \E c \in AnyCoordinates(game_configuration) : ApplyUnchecked(SetMarkFlag(c))
SetMarkNoteAnywhere == \E c \in AnyCoordinates(game_configuration) : ApplyUnchecked(SetMarkNote(c))
ExploreAnywhere == \E c \in AnyCoordinates(game_configuration) : ApplyUnchecked(Explore(c))

NextUnchecked ==
    \/ GenerateWorld
    \/ ClearMarkAnywhere
    \/ SetMarkFlagAnywhere
    \/ SetMarkNoteAnywhere
    \/ ExploreAnywhere

SpecUnchecked == Init /\ [][NextUnchecked]_vars

\* C12: a coordinate command outside [0,height) x [0,width) aborts the call:
\* no cell and no counter changes and no resolution is returned, also when
\* the column is >= width while row * width + col is below width * height.
C12_OutOfRangeAborts ==
    [][ (pc = "play" /\ HasCoordinate(command')
           /\ command'.coordinate \notin Coordinates(game_configuration))
          => /\ pc' = "panicked"
             /\ cells' = cells
             /\ mines_discovered' = mines_discovered
             /\ resolve' = resolve ]_vars


-----------------------------------------------------------------------------
(* Text.  A &str is the sequence of its characters.                         *)

Digits == <<"0", "1", "2", "3", "4", "5", "6", "7", "8", "9">>
UpperCase == <<"A", "B", "C", "D", "E", "F", "G", "H", "I", "J", "K", "L", "M",
               "N", "O", "P", "Q", "R", "S", "T", "U", "V", "W", "X", "Y", "Z">>
LowerCase == <<"a", "b", "c", "d", "e", "f", "g", "h", "i", "j", "k", "l", "m",
               "n", "o", "p", "q", "r", "s", "t", "u", "v", "w", "x", "y", "z">>
WhiteSpace == {" ", "\n", "\t"}

IsDigit(ch) == \E i \in 1..Len(Digits) : Digits[i] = ch
DigitValue(ch) == (CHOOSE i \in 1..Len(Digits) : Digits[i] = ch) - 1

\* Result<T, E>
Ok(v) == [ok |-> TRUE, value |-> v]
Err(e) == [ok |-> FALSE, error |-> e]

\* str::to_lowercase
to_lowercase(s) ==
    [i \in 1..Len(s) |->
        IF \E k \in 1..Len(UpperCase) : UpperCase[k] = s[i]
        THEN LowerCase[CHOOSE k \in 1..Len(UpperCase) : UpperCase[k] = s[i]]
        ELSE s[i]]

\* str::trim: drop the leading and the trailing white space
RECURSIVE trim_start(_)
trim_start(s) ==
    IF s # <<>> /\ Head(s) \in WhiteSpace THEN trim_start(Tail(s)) ELSE s

RECURSIVE trim_end(_)
trim_end(s) ==
    IF s # <<>> /\ s[Len(s)] \in WhiteSpace
    THEN trim_end(SubSeq(s, 1, Len(s) - 1)) ELSE s

trim(s) == trim_end(trim_start(s))

\* str::split_once(ch): the text before and after the first ch, or None
None == [some |-> FALSE]
Some(v) == [some |-> TRUE, value |-> v]

RECURSIVE find(_, _, _)
find(s, ch, i) ==
    IF i > Len(s) THEN 0
    ELSE IF s[i] = ch THEN i
    ELSE find(s, ch, i + 1)

split_once(s, ch) ==
    LET i == find(s, ch, 1)
    IN  IF i = 0 THEN None
        ELSE Some(<<SubSeq(s, 1, i - 1), SubSeq(s, i + 1, Len(s))>>)

\* str::replace(&['\n', ')'], ""): drop every character of the set
RECURSIVE remove_chars(_, _)
remove_chars(s, chars) ==
    IF s = <<>> THEN <<>>
    ELSE IF Head(s) \in chars THEN remove_chars(Tail(s), chars)
    ELSE <<Head(s)>> \o remove_chars(Tail(s), chars)

\* str::parse::<u16>: an optional '+', then one or more decimal digits whose
\* value fits 16 bits; anything else is a ParseIntError
RECURSIVE parse_digits(_, _, _)
parse_digits(s, acc, limit) ==
    IF s = <<>> THEN Ok(acc)
    ELSE IF ~IsDigit(Head(s)) THEN Err("ParseIntError")
    ELSE IF acc * 10 + DigitValue(Head(s)) >= limit THEN Err("ParseIntError")
    ELSE parse_digits(Tail(s), acc * 10 + DigitValue(Head(s)), limit)

parse_u16(s) ==
    LET digits == IF s # <<>> /\ Head(s) = "+" THEN Tail(s) ELSE s
    IN  IF digits = <<>> THEN Err("ParseIntError")
        ELSE parse_digits(digits, 0, U16)

-----------------------------------------------------------------------------
(* The command parser.                                                      *)

Text_pass == <<"p", "a", "s", "s">>
Text_quit == <<"q", "u", "i", "t">>
Text_clear == <<"c", "l", "e", "a", "r">>
Text_flag == <<"f", "l", "a", "g">>
Text_note == <<"n", "o", "t", "e">>
Text_explore == <<"e", "x", "p", "l", "o", "r", "e">>

\* the final match of try_from on the verb
lookup_verb(verb, value_x, value_y) ==
    CASE verb = Text_clear -> Ok(ClearMark(Coordinate(value_x, value_y)))
      [] verb = Text_flag -> Ok(SetMarkFlag(Coordinate(value_x, value_y)))
      [] verb = Text_note -> Ok(SetMarkNote(Coordinate(value_x, value_y)))
      [] verb = Text_explore -> Ok(Explore(Coordinate(value_x, value_y)))
      [] OTHER -> Err("NotFound")

\* parse_coordinate_command that looks the verb up before it parses the numbers
parse_coordinate_command_verb_first(command_coordinate) ==
    LET after_open == trim(command_coordinate[2])
        xy == split_once(after_open, ",")
    IN  IF ~xy.some THEN Err("MalformedCoordinate")
        ELSE IF ~lookup_verb(trim(command_coordinate[1]), 0, 0).ok THEN Err("NotFound")
        ELSE LET value_x == parse_u16(xy.value[1])
                 value_y == parse_u16(trim(remove_chars(xy.value[2], {"\n", ")"})))
             IN  IF ~value_x.ok THEN Err("CoordinateParsing")
                 ELSE IF ~value_y.ok THEN Err("CoordinateParsing")
                 ELSE lookup_verb(trim(command_coordinate[1]),
                                  value_x.value, value_y.value)

\* the part of try_from after the '(' was found: command_coordinate is the
\* pair split_once('(') returned
parse_coordinate_command(command_coordinate) ==
    LET after_open == trim(command_coordinate[2])
        xy == split_once(after_open, ",")
    IN  IF ~xy.some THEN Err("MalformedCoordinate")
        ELSE LET value_x == parse_u16(xy.value[1])
                 value_y == parse_u16(trim(remove_chars(xy.value[2], {"\n", ")"})))
             IN  IF ~value_x.ok THEN Err("CoordinateParsing")
                 ELSE IF ~value_y.ok THEN Err("CoordinateParsing")
                 ELSE lookup_verb(trim(command_coordinate[1]),
                                  value_x.value, value_y.value)

\* impl TryFrom<&str> for BoardCommand
try_from_command(text) ==
    LET value == trim(to_lowercase(text))
    IN  IF value = Text_pass THEN Ok(Pass)
        ELSE IF value = Text_quit THEN Ok(Quit)
        ELSE LET command_coordinate == split_once(value, "(")
             IN  IF ~command_coordinate.some THEN Err("MalformedString")
                 ELSE parse_coordinate_command(command_coordinate.value)


-----------------------------------------------------------------------------
(* The parser applied to input lines.  A line is drawn as a sequence of      *)
(* segments <<lead, verb, gap, open, gap, row, gap, comma, gap, col, gap,    *)
(* close, trail>>; the parser receives their concatenation.                  *)

RECURSIVE Flatten(_)
Flatten(segments) ==
    IF segments = <<>> THEN <<>> ELSE Head(segments) \o Flatten(Tail(segments))

\* the decimal text of a number
RECURSIVE to_decimal(_)
to_decimal(n) ==
    IF n < 10 THEN <<Digits[n + 1]>>
    ELSE to_decimal(n \div 10) \o <<Digits[(n % 10) + 1]>>

Gaps == { <<>>, <<" ">> }
KnownVerbs == { Text_clear, Text_flag, Text_note, Text_explore }
Text_mark == <<"m", "a", "r", "k">>
Text_test == <<"t", "e", "s", "t">>
Text_asd == <<"a", "s", "d">>

\* Row and column values at the ends and inside the u16 range.
U16Samples == { 0, 10, U16 - 1 }

\* verb(row,col) with white space at any of the six places of the grammar
GrammarLines ==
    { <<around, verb, g1, <<"(">>, g2, to_decimal(row), g3, <<",">>, g4,
        to_decimal(col), g5, <<")">>, around>> :
        around \in Gaps, verb \in KnownVerbs \cup { Text_test, <<"F", "l", "a", "g">> },
        g1 \in Gaps, g2 \in Gaps, g3 \in Gaps, g4 \in Gaps, g5 \in Gaps,
        row \in U16Samples, col \in U16Samples }

\* lines with a missing or doubled parenthesis, a missing comma, a field that
\* is no u16, an unknown verb, and combinations of these
BrokenLines ==
    { <<<<>>, verb, <<>>, open, <<>>, row, <<>>, comma, <<>>, col, <<>>, close, trail>> :
        verb \in { Text_flag, Text_mark },
        open \in { <<"(">>, <<>>, <<"(", "(">> },
        row \in { <<"1", "0">>, <<"1", "0", "0", "0", "0", "0", "0">>, <<>>, <<"a">> },
        comma \in { <<",">>, <<>>, <<".">> },
        col \in { <<"1", "0">>, <<"1", "0", ",", "1", "0">>, <<>>, <<"b">> },
        close \in { <<")">>, <<>>, <<")", ")">> },
        trail \in { <<>>, <<"\n">> } }

\* lines of one word
WordLines ==
    { <<lead, word, <<>>, <<>>, <<>>, <<>>, <<>>, <<>>, <<>>, <<>>, <<>>, <<>>, trail>> :
        lead \in Gaps,
        word \in { Text_pass, Text_quit, Text_asd, <<"P", "a", "s", "s">>, <<"Q", "U", "I", "T">> },
        trail \in { <<>>, <<"\n">> } }

Lines == GrammarLines \cup BrokenLines \cup WordLines

\* No board exists while a text is parsed on its own.
NoBoard ==
    /\ game_configuration = GameConfiguration(0, 0, 0)
    /\ mines_discovered = 0
    /\ cells = <<>>
    /\ command = NoCommand
    /\ resolve = "Continue"
    /\ queue = <<>>

InitParse ==
    /\ NoBoard
    /\ input \in Lines
    /\ output = <<>>
    /\ pc = "read"

\* BoardCommand::try_from(&cmd[..])
ParseCommand ==
    /\ pc = "read"
    /\ output' = try_from_command(Flatten(input))
    /\ pc' = "parsed"
    /\ UNCHANGED <<game_configuration, mines_discovered, cells, command, resolve,
                   queue, input>>

NextParse == ParseCommand

SpecParse == InitParse /\ [][NextParse]_vars

\* The line as the grammar reads it: lower case, no surrounding white space.
Normal(line) == trim(to_lowercase(line))
Occurs(ch, s) == \E i \in 1..Len(s) : s[i] = ch
FirstPos(ch, s) == CHOOSE i \in 1..Len(s) : s[i] = ch /\ \A j \in 1..(i - 1) : s[j] # ch
Before(ch, s) == SubSeq(s, 1, FirstPos(ch, s) - 1)
After(ch, s) == SubSeq(s, FirstPos(ch, s) + 1, Len(s))

HasOpen(line) == Occurs("(", Normal(line))
HasComma(line) == HasOpen(line) /\ Occurs(",", After("(", Normal(line)))
VerbOf(line) == trim(Before("(", Normal(line)))
\* the row field, white space after the '(' dropped; the column field, the
\* closing ')' and the white space around it dropped
RowField(line) == trim_start(Before(",", trim(After("(", Normal(line)))))
ColField(line) ==
    trim(SelectSeq(After(",", trim(After("(", Normal(line)))),
                   LAMBDA ch : ch \notin {")", "\n"}))

\* The text is an unsigned decimal number (with an optional '+') below 2^16.
RECURSIVE DecimalValue(_)
DecimalValue(t) ==
    IF t = <<>> THEN 0
    ELSE DecimalValue(SubSeq(t, 1, Len(t) - 1)) * 10 + DigitValue(t[Len(t)])

IsU16Text(t) ==
    LET d == IF t # <<>> /\ t[1] = "+" THEN Tail(t) ELSE t
    IN  /\ d # <<>>
        /\ \A i \in 1..Len(d) : IsDigit(d[i])
        /\ Len(d) <= 8
        /\ DecimalValue(d) < U16

\* C13: the parser reports the first failure in the order: no '(' gives
\* MalformedString; '(' without a ',' after it gives MalformedCoordinate; a
\* row or column field that is no u16 gives CoordinateParsing; only then an
\* unknown verb gives NotFound.
C13_ParseErrorOrder ==
    pc = "parsed" =>
      LET line == Flatten(input)
      IN  Normal(line) \notin { Text_pass, Text_quit } =>
            /\ ~HasOpen(line) => output = Err("MalformedString")
            /\ (HasOpen(line) /\ ~HasComma(line)) => output = Err("MalformedCoordinate")
            /\ (HasComma(line) /\ ~(IsU16Text(RowField(line)) /\ IsU16Text(ColField(line))))
                  => output = Err("CoordinateParsing")
            /\ (HasComma(line) /\ IsU16Text(RowField(line)) /\ IsU16Text(ColField(line)))
                  => (output = Err("NotFound")) = (VerbOf(line) \notin KnownVerbs)

\* mark(10,10,10), an unknown verb with a column field that is no number, was
\* parsed to CoordinateParsing.
C13_Witness ==
    /\ pc = "parsed"
    /\ Flatten(input) = <<"m", "a", "r", "k", "(", "1", "0", ",", "1", "0", ",", "1", "0", ")">>
    /\ output = Err("CoordinateParsing")


\* The command the grammar assigns to a recognized verb.
CommandFor(verb, row, col) ==
    CASE verb = Text_clear -> ClearMark(Coordinate(row, col))
      [] verb = Text_flag -> SetMarkFlag(Coordinate(row, col))
      [] verb = Text_note -> SetMarkNote(Coordinate(row, col))
      [] verb = Text_explore -> Explore(Coordinate(row, col))

\* The segments spell verb(row,col) for a recognized verb and two u16 values,
\* with optional white space at the six places.
IsGrammarLine(segments) ==
    /\ segments[2] \in KnownVerbs
    /\ segments[4] = <<"(">> /\ segments[8] = <<",">> /\ segments[12] = <<")">>
    /\ IsU16Text(segments[6]) /\ IsU16Text(segments[10])
    /\ \A k \in {1, 3, 5, 7, 9, 11, 13} : segments[k] \in Gaps

\* C14: verb(row,col) for a recognized verb and u16 values parses to the
\* command with Coordinate(row, col) when white space is inserted around the
\* line, between the verb and '(', after '(', before the comma, after the
\* comma and before ')'.
C14_WhitespaceTolerated ==
    (pc = "parsed" /\ IsGrammarLine(input))
      => output = Ok(CommandFor(input[2], DecimalValue(input[6]), DecimalValue(input[10])))


-----------------------------------------------------------------------------
(* The loop of game_loop on a generated board: read a line, parse it, apply  *)
(* the command if it parsed, and break or continue on the resolution.        *)

\* the line a player types for a command, with the newline read_line keeps
LineOf(verb, c) ==
    verb \o <<"(">> \o to_decimal(c[1]) \o <<",">> \o to_decimal(c[2]) \o <<")", "\n">>

\* The lines typed: every command at every in-range coordinate, pass, quit,
\* and lines that do not parse.
LoopLines(cfg) ==
    { LineOf(verb, c) : verb \in KnownVerbs, c \in Coordinates(cfg) }
    \cup { Text_pass \o <<"\n">>, Text_quit \o <<"\n">> }
    \cup { Text_asd \o <<"\n">>, <<"\n">>, <<"m", "a", "r", "k", "(", "0", ",", "0", ")", "\n">>, <<"f", "l", "a", "g", "(", "0", " ", ",", "0", ")", "\n">> }

\* BoardCommand::try_from(&cmd[..]) on each of the lines, computed once
AllLoopLines == UNION { LoopLines(cfg) : cfg \in Configurations }
try_from_line == [line \in AllLoopLines |-> try_from_command(line)]

\* match resolve { Continue => continue, _ => break } that keeps looping
\* after a mine was hit
loop_after_ignores_mine(res) ==
    IF res \in {"Continue", "MineHit"} THEN "play" ELSE "done"

\* match resolve { Quit => break, Continue => continue, MineHit => break,
\* AllMinesDiscovered => break }
loop_after(res) == IF res = "Continue" THEN "play" ELSE "done"

\* one iteration of the loop
LoopIteration ==
    /\ pc = "play"
    /\ \E line \in LoopLines(game_configuration) :
          LET cmd == try_from_line[line]
          IN  /\ input' = line
              /\ output' = cmd
              /\ IF ~cmd.ok
                 THEN UNCHANGED <<cells, mines_discovered, command, resolve, pc>>
                 ELSE /\ command' = cmd.value
                      /\ IF /\ cmd.value.op \in {"ClearMark", "SetMarkFlag",
                                                 "SetMarkNote", "Explore"}
                            /\ index_panics(cells,
                                   compute_linear_index(game_configuration,
                                                        cmd.value.coordinate))
                         THEN /\ pc' = "panicked"
                              /\ UNCHANGED <<cells, mines_discovered, resolve>>
                         ELSE LET r == manipulate_cell(game_configuration, cells,
                                                       mines_discovered, cmd.value)
                              IN  /\ cells' = r[1]
                                  /\ mines_discovered' = r[2]
                                  /\ resolve' = r[3]
                                  /\ pc' = loop_after(r[3])
    /\ UNCHANGED <<game_configuration, queue>>

NextLoop ==
    \/ GenerateWorld
    \/ LoopIteration

\* game_loop builds its board from the configuration text, whose first number
\* is both the width and the height.
InitLoop ==
    /\ Init
    /\ w(game_configuration) = h(game_configuration)

SpecLoop == InitLoop /\ [][NextLoop]_vars

\* C15: in the game loop a line that fails to parse leaves the cells and the
\* counter unchanged and the loop reads the next line; the loop keeps running
\* after every Continue and stops at the first Quit, MineHit or
\* AllMinesDiscovered, after which no command is applied to the board.
C15_LoopControl ==
    [][ /\ pc = "play" =>
              /\ ~output'.ok => (cells' = cells /\ mines_discovered' = mines_discovered
                                  /\ pc' = "play")
              /\ output'.ok => /\ command' = output'.value
                               /\ pc' \in {"play", "done"}
                               /\ (pc' = "play") = (resolve' = "Continue")
        /\ pc = "done" => (cells' = cells /\ mines_discovered' = mines_discovered) ]_vars

\* The loop ended on the flag of the second of two mines.
C15_Witness ==
    /\ pc = "done"
    /\ Total = 2
    /\ resolve = "AllMinesDiscovered"
    /\ output = Ok(command)
    /\ command.op = "SetMarkFlag"


-----------------------------------------------------------------------------
(* The flood-fill with a work-list drained in any order: each iteration      *)
(* takes some element of the work-list, not necessarily the last, and        *)
(* handles it as the loop body of explore_cells does.  input remembers the   *)
(* board and the coordinate the fill started from.                           *)

\* the work-list with its k-th element moved to the end, where pop takes it
TakeAt(q, k) == SubSeq(q, 1, k - 1) \o SubSeq(q, k + 1, Len(q)) \o <<q[k]>>

BeginFill ==
    /\ pc = "play"
    /\ \E c \in Coordinates(game_configuration) :
          /\ cells[compute_linear_index(game_configuration, c)].kind = "NoMine"
          /\ command' = Explore(c)
          /\ queue' = <<c>>
          /\ input' = <<cells, c>>
    /\ pc' = "explore_cells"
    /\ UNCHANGED <<game_configuration, mines_discovered, cells, resolve, output>>

FillStepAny ==
    /\ pc = "explore_cells"
    /\ \E k \in 1..Len(queue) :
          LET next == explore_step(game_configuration, cells, TakeAt(queue, k))
          IN  /\ cells' = next[1]
              /\ queue' = next[2]
    /\ UNCHANGED <<game_configuration, mines_discovered, pc, command, resolve,
                   input, output>>

EndFill ==
    /\ pc = "explore_cells"
    /\ queue = <<>>
    /\ resolve' = win_check(game_configuration, mines_discovered, "Continue")
    /\ pc' = "play"
    /\ input' = <<>>
    /\ UNCHANGED <<game_configuration, mines_discovered, cells, command, queue, output>>

NextAnyOrder ==
    \/ GenerateWorld
    \/ DoSetMarkFlag
    \/ BeginFill
    \/ FillStepAny
    \/ EndFill

SpecAnyOrder == Init /\ [][NextAnyOrder]_vars

\* C16: a flood-fill that takes any element of the work-list at each step
\* ends in the cells the stack-based explore_cells produces from the same
\* board and start cell.
C16_OrderIndependent ==
    (pc = "explore_cells" /\ queue = <<>>)
      => cells = explore_cells(game_configuration, input[1], input[2])

\* A fill ended after revealing three or more cells of a board with a mine,
\* one of them flagged when the fill began.
C16_Witness ==
    /\ pc = "explore_cells"
    /\ queue = <<>>
    /\ \E i \in Indices : IsMine(cells, i)
    /\ Cardinality({ i \in Indices : IsExplored(cells, i) /\ IsNoMine(input[1], i) }) >= 3
    /\ \E i \in Indices : input[1][i] = NoMine("MarkFlag", 1) /\ IsExplored(cells, i)


-----------------------------------------------------------------------------
(* Frame of the commands that do not explore.                                *)

\* Two cells of the same kind and neighbour count, whatever their marks.
SameButMark(a, b) ==
    /\ a.kind = b.kind
    /\ a.kind \in {"NoMine", "Explored"} => a.n = b.n

\* C17: Pass and Quit leave the cells and the counter unchanged; ClearMark,
\* SetMarkFlag and SetMarkNote at an in-range coordinate keep the kind and the
\* neighbour count of the cell at that coordinate and leave every other cell
\* unchanged.
C17_MarkFrame ==
    [][ Applies =>
          /\ command'.op \in {"Pass", "Quit"}
               => (cells' = cells /\ mines_discovered' = mines_discovered)
          /\ command'.op \in {"ClearMark", "SetMarkFlag", "SetMarkNote"}
               => \A i \in Indices :
                     IF i = IndexOf(command'.coordinate)
                     THEN SameButMark(cells'[i], cells[i])
                     ELSE cells'[i] = cells[i] ]_vars

\* A note was set on a non-mine cell with two mines around it, on a board
\* that also holds a flagged mine and an explored cell.
C17_Witness ==
    /\ pc = "play"
    /\ command.op = "SetMarkNote"
    /\ cells[IndexOf(command.coordinate)] = NoMine("MarkNote", 2)
    /\ \E i \in Indices : cells[i] = Mine("MarkFlag")
    /\ \E i \in Indices : IsExplored(cells, i)


\* C19: in every state reached from a generated board by commands at
\* in-range coordinates the counter lies between 0 and total_mines: no
\* decrement runs at 0 and no increment passes the number of mines.
C19_CounterInRange ==
    /\ mines_discovered # Underflowed
    /\ mines_discovered >= 0
    /\ mines_discovered <= Total

\* The flag of one mine was cleared while every other mine, at least one,
\* stays flagged, and a flag also sits on a non-mine cell.
C19_Witness ==
    /\ pc = "play"
    /\ command.op = "ClearMark"
    /\ cells[IndexOf(command.coordinate)] = Mine("NoMark")
    /\ Total >= 2
    /\ mines_discovered = Total - 1
    /\ \E i \in Indices : IsNoMine(cells, i) /\ cells[i].mark = "MarkFlag"


-----------------------------------------------------------------------------
(* compute_linear_index on boards of 16-bit width and height.  The cells of  *)
(* such a board are not enumerated: cells stays empty and the index the      *)
(* engine computes is recorded in output.                                    *)

\* widths and heights around the sizes at which row * width leaves u16
DimensionSamples == {1, 2, 3, 255, 256, 257, 4096}

WideConfigurations ==
    { GameConfiguration(wd, ht, 0) : <<wd, ht>> \in DimensionSamples \X DimensionSamples }

\* in-range coordinates at the edges of the sampled sizes
WideCoordinates(cfg) ==
    { c \in { d - 1 : d \in DimensionSamples } \X { d - 1 : d \in DimensionSamples } :
        c[1] < h(cfg) /\ c[2] < w(cfg) }

\* coordinate.0 * w() or the following + coordinate.1 leaves the range of u16
index_overflows(cfg, coordinate) ==
    \/ coordinate[1] * w(cfg) >= U16
    \/ ((coordinate[1] * w(cfg)) % U16) + coordinate[2] >= U16

InitIndex ==
    /\ game_configuration \in WideConfigurations
    /\ mines_discovered = 0
    /\ cells = <<>>
    /\ pc = "play"
    /\ command = NoCommand
    /\ resolve = "Continue"
    /\ queue = <<>>
    /\ input = <<>>
    /\ output = <<>>

\* The index is computed: exactly when nothing overflows, wrapped around
\* 2^16 in a build without overflow checks.
ComputeIndex ==
    /\ pc = "play"
    /\ \E c \in WideCoordinates(game_configuration) :
          /\ command' = Explore(c)
          /\ output' = Ok(compute_linear_index(game_configuration, c))
    /\ pc' = "indexed"
    /\ UNCHANGED <<game_configuration, mines_discovered, cells, resolve, queue, input>>

\* A build with overflow checks panics in the multiplication or the addition.
IndexOverflowPanics ==
    /\ pc = "play"
    /\ \E c \in WideCoordinates(game_configuration) :
          /\ index_overflows(game_configuration, c)
          /\ command' = Explore(c)
    /\ output' = Err("attempt to multiply or add with overflow")
    /\ pc' = "panicked"
    /\ UNCHANGED <<game_configuration, mines_discovered, cells, resolve, queue, input>>

NextIndex ==
    \/ ComputeIndex
    \/ IndexOverflowPanics

SpecIndex == InitIndex /\ [][NextIndex]_vars

\* C18: for every 16-bit width and height and every in-range coordinate the
\* index the engine computes is row * width + col, without a panic or a
\* wrap-around: it is below width * height and no other in-range coordinate
\* gets the same index.
C18_IndexExact ==
    pc \in {"indexed", "panicked"} =>
       /\ output = Ok(IndexOf(command.coordinate))
       /\ output.value < w(game_configuration) * h(game_configuration)
       /\ \A c \in WideCoordinates(game_configuration) :
             c # command.coordinate
               => compute_linear_index(game_configuration, c) # output.value


-----------------------------------------------------------------------------
(* The configuration parser and the start of game_loop.                      *)

\* a panic raised inside a function, which returns no value
Panic(message) == [ok |-> FALSE, panic |-> message]

\* GameConfigurationError::MalformedInteger(ParseIntError)
MalformedInteger(err) == [MalformedInteger |-> err]

\* the digits of a u32 accumulated as hi * 2^16 + lo, so that the comparison
\* with 2^32 is made on numbers below 2^21
RECURSIVE parse_digits_u32(_, _, _)
parse_digits_u32(s, hi, lo) ==
    IF s = <<>> THEN Ok(hi * U16 + lo)
    ELSE IF ~IsDigit(Head(s)) THEN Err("ParseIntError")
    ELSE LET low == lo * 10 + DigitValue(Head(s))
             high == hi * 10 + (low \div U16)
         IN  IF high >= U16 THEN Err("ParseIntError")
             ELSE parse_digits_u32(Tail(s), high, low % U16)

\* str::parse::<u32>
parse_u32(s) ==
    LET digits == IF s # <<>> /\ Head(s) = "+" THEN Tail(s) ELSE s
    IN  IF digits = <<>> THEN Err("ParseIntError")
        ELSE parse_digits_u32(digits, 0, 0)

\* impl TryFrom<&str> for GameConfiguration: the Err(MalformedString) built by
\* ok_or is unwrapped on the next line, width and height both come from the
\* text before the first space
try_from_config(value) ==
    LET game_config == split_once(value, " ")
    IN  IF ~game_config.some
        THEN Panic("Result::unwrap() on an Err value: MalformedString")
        ELSE LET dimensions == game_config.value[1]
                 mines_text == game_config.value[2]
                 width == parse_u16(trim(dimensions))
                 height == parse_u16(trim(dimensions))
                 total_mines == parse_u32(trim(mines_text))
             IN  IF ~width.ok THEN Err(MalformedInteger(width.error))
                 ELSE IF ~height.ok THEN Err(MalformedInteger(height.error))
                 ELSE IF ~total_mines.ok THEN Err(MalformedInteger(total_mines.error))
                 ELSE Ok(GameConfiguration(width.value, height.value, total_mines.value))

\* The configuration line read at startup, drawn as the segments
\* <<dimensions, separator, mines, ending>>.
DimensionTexts ==
    { to_decimal(0), to_decimal(1), to_decimal(2), to_decimal(3),
      <<"+">> \o to_decimal(2), to_decimal(U16), <<"a">>, <<>> }
SeparatorTexts == { <<>>, <<" ">>, <<" ", " ">>, <<",">>, <<"\t">> }
MineTexts ==
    { to_decimal(0), to_decimal(1), to_decimal(2), <<"x">>, <<>>,
      <<"-">> \o to_decimal(1),
      <<"4", "2", "9", "4", "9", "6", "7", "2", "9", "6">> }
EndingTexts == { <<"\n">>, <<>>, <<" ", "\n">> }

ConfigLines ==
    { <<d, s, m, e>> : d \in DimensionTexts, s \in SeparatorTexts,
                       m \in MineTexts, e \in EndingTexts }

InitConfig ==
    /\ NoBoard
    /\ input \in ConfigLines
    /\ output = <<>>
    /\ pc = "start"

\* try_from returns a configuration: GameBoard::new builds the board.
ConfigAccepted ==
    /\ pc = "start"
    /\ LET parsed == try_from_config(Flatten(input))
       IN  /\ parsed.ok
           /\ output' = parsed
           /\ game_configuration' = parsed.value
           /\ cells' = new_cells(parsed.value)
    /\ mines_discovered' = 0
    /\ pc' = "new"
    /\ UNCHANGED <<command, resolve, queue, input>>

\* try_from returns an error: the expect of game_loop ends the program.
ConfigRejected ==
    /\ pc = "start"
    /\ LET parsed == try_from_config(Flatten(input))
       IN  /\ ~parsed.ok
           /\ "error" \in DOMAIN parsed
           /\ output' = parsed
    /\ pc' = "panicked"
    /\ UNCHANGED <<game_configuration, mines_discovered, cells, command, resolve,
                   queue, input>>

\* try_from panics in its own unwrap and returns nothing.
ConfigUnwrapPanics ==
    /\ pc = "start"
    /\ "panic" \in DOMAIN try_from_config(Flatten(input))
    /\ pc' = "panicked"
    /\ UNCHANGED <<game_configuration, mines_discovered, cells, command, resolve,
                   queue, input, output>>

NextConfig ==
    \/ ConfigAccepted
    \/ ConfigRejected
    \/ ConfigUnwrapPanics

SpecConfig == InitConfig /\ [][NextConfig]_vars


\* The text without its optional '+' and its leading zeros.
Unsigned(t) == IF t # <<>> /\ t[1] = "+" THEN Tail(t) ELSE t
RECURSIVE Significant(_)
Significant(d) == IF Len(d) > 1 /\ d[1] = "0" THEN Significant(Tail(d)) ELSE d

\* The text is an unsigned decimal number (with an optional '+') below 2^32.
IsU32Text(t) ==
    LET d == Unsigned(t)
        sig == Significant(d)
    IN  /\ d # <<>>
        /\ \A i \in 1..Len(d) : IsDigit(d[i])
        /\ \/ Len(sig) <= 9
           \/ /\ Len(sig) = 10
              /\ LET upper == DecimalValue(SubSeq(sig, 1, 9))
                 IN  \/ upper < 429496729
                     \/ upper = 429496729 /\ DigitValue(sig[10]) <= 5

\* C20: once the configuration text is handled, text without a space has
\* given the error value MalformedString, text whose first or second field
\* is no unsigned integer has given MalformedInteger, both before any board
\* exists, and any other text has given the configuration whose width and
\* height are the first integer and whose total_mines is the second.
C20_ConfigErrors ==
    pc # "start" =>
      LET text == Flatten(input)
      IN  IF ~Occurs(" ", text)
          THEN output = Err("MalformedString") /\ cells = <<>>
          ELSE LET first == trim(Before(" ", text))
                   second == trim(After(" ", text))
               IN  IF ~IsU16Text(first) \/ ~IsU32Text(second)
                   THEN output = Err(MalformedInteger("ParseIntError")) /\ cells = <<>>
                   ELSE LET size == DecimalValue(Unsigned(first))
                            expected == GameConfiguration(size, size,
                                                          DecimalValue(Unsigned(second)))
                        IN  /\ output = Ok(expected)
                            /\ game_configuration = expected
                            /\ cells = new_cells(expected)

====
